---------------------------- MODULE Spec2Model ----------------------------
(***************************************************************************)
(* A model of the streaming pipeline of enginen (src/src/main.rs) and of   *)
(* the paginating table sink (src/src/table.rs).                           *)
(*                                                                         *)
(* A pipeline is a chain of stages; every stage pulls from the stage in    *)
(* its `input` field with next().  One action is the code a stage runs     *)
(* between two suspension points (an upstream next().await); pc names the  *)
(* stage that runs and the place in its next().  The Ctrl-C handler runs   *)
(* on a thread of its own and may fire between any two steps.              *)
(***************************************************************************)
EXTENDS Integers, Sequences, FiniteSets, TLC

VARIABLES
    input,       \* input[s]: the upstream wired into stage s by connect(), or "none"
    script,      \* what the source stage's enumerator has still to yield
    chan,        \* number of messages queued in the ctrl_c channel
    counter,     \* the shared AtomicUsize
    pc,          \* <<stage, place>>: the code that runs next
    ret,         \* the result of the next() call that returned last
    held,        \* held[r]: `res`, the item ActionRunner r pulled and has not matched yet
    printed,     \* the values main has printed, in order
    greeted,     \* number of "Hello world!" lines printed
    mode,        \* the driver: "main" (the loop of main) or "poll" (a client that keeps calling)
    top,         \* the outermost stage, the one the driver calls
    calls,       \* number of next() calls the polling client has made
    \* ---- TableCommand::table ----
    finished,    \* the upstream has returned None
    start_number,\* the index the next page starts at
    delay_slot,  \* the one value held back: <<>> (None) or <<v>> (Some(v))
    new_input,   \* the page being accumulated
    idx,         \* the loop variable of `for idx in 0..STREAM_PAGE_SIZE`
    rendered,    \* the pages handed to TableView::from_list and printed, in order
    feed,        \* the table's upstream when it is no pipeline: what it will yield
    feedPos,     \* number of results that upstream has yielded
    \* ---- history (not program state) ----
    everSet,     \* the Ctrl-C handler has sent at least once
    sigAtCall,   \* sigAtCall[r]: a message was queued when ActionRunner r's next() was entered
    heldAfter,   \* heldAfter[r]: held[r] was pulled after the handler had sent
    cancelled,   \* some ActionRunner has returned the Interrupted error
    cancAtCall,  \* cancAtCall[r]: cancelled, when ActionRunner r's next() was entered
    timeouts,    \* number of time checks that found a second or more elapsed
    flushed,     \* the last step handed a page to the renderer
    recvd,       \* recvd[s]: every result stage s got from its upstream, in order
    sent,        \* sent[s]: every result stage s returned, in order
    \* ---- TableView ----
    view         \* the arguments and locals of TableView::from_list and print_view

pipeVars == <<script, chan, counter, held, printed, greeted, calls, everSet,
              sigAtCall, heldAfter, cancelled, cancAtCall>>

tableVars == <<finished, start_number, delay_slot, new_input, idx, rendered,
               feedPos, timeouts, flushed>>

vars == <<input, mode, top, feed, pc, ret, recvd, sent, pipeVars, tableVars, view>>

-----------------------------------------------------------------------------
(* Bounds of the model *)

\* Longest enumeration of the source stage.
MaxScript == 2

\* Most next() calls the polling client makes.
MaxCalls == 3

-----------------------------------------------------------------------------
(* Values: enum Value *)

Str(s) == [kind |-> "String", text |-> s, row |-> <<>>]

BoolV(b) == [kind |-> "Bool", text |-> IF b THEN "true" ELSE "false", row |-> <<>>]

Nothing == [kind |-> "Nothing", text |-> "", row |-> <<>>]

\* A Row keeps its fields in insertion order: a sequence of name/value pairs.
Field(n, v) == [name |-> n, val |-> v]

Row(fields) == [kind |-> "Row", text |-> "", row |-> fields]

\* Value::column_names: the keys of a Row in order, nothing for any other value.
column_names(v) ==
    IF v.kind = "Row" THEN [i \in 1..Len(v.row) |-> v.row[i].name] ELSE <<>>

\* IndexMap::get: the value of field n of a Row's fields, if there is one.
HasField(fields, n) == \E i \in 1..Len(fields) : fields[i].name = n

GetField(fields, n) ==
    fields[CHOOSE i \in 1..Len(fields) :
               /\ fields[i].name = n
               /\ \A j \in 1..(i - 1) : fields[j].name # n].val

\* A Vec<Value> is kept run-length encoded: a sequence of runs [v, n], value v
\* n >= 1 times, no two neighbouring runs of the same value.  VecSeq is the
\* sequence it stands for.
VecPush(q, v) ==
    IF q # <<>> /\ q[Len(q)].v = v
      THEN [q EXCEPT ![Len(q)].n = @ + 1]
      ELSE Append(q, [v |-> v, n |-> 1])

RECURSIVE VecLen(_)
VecLen(q) == IF q = <<>> THEN 0 ELSE Head(q).n + VecLen(Tail(q))

RECURSIVE VecSeq(_)
VecSeq(q) ==
    IF q = <<>> THEN <<>> ELSE [i \in 1..Head(q).n |-> Head(q).v] \o VecSeq(Tail(q))

\* The i-th value of a Vec, counted from 1.
RECURSIVE VecGet(_, _)
VecGet(q, i) == IF i <= Head(q).n THEN Head(q).v ELSE VecGet(Tail(q), i - Head(q).n)

\* str::contains
Contains(hay, needle) ==
    \E i \in 1..(Len(hay) - Len(needle) + 1) :
        SubSeq(hay, i, i + Len(needle) - 1) = needle

-----------------------------------------------------------------------------
(* What next() yields: enum ReturnValue, and Result<Option<_>, PipelineError> *)

ValueOut(v) == [out |-> "Value", value |-> v, action |-> ""]

ActionOut(a) == [out |-> "Action", value |-> Nothing, action |-> a]

Some(i) == [t |-> "Some", item |-> i, err |-> ""]

None == [t |-> "None", item |-> ValueOut(Nothing), err |-> ""]

Err(e) == [t |-> "Err", item |-> ValueOut(Nothing), err |-> e]

-----------------------------------------------------------------------------
(* Stages and wiring *)

\* The two ActionRunner instances main builds.
Runners == {"glue", "drain"}

Stages == {"ls", "glue", "where_", "drain", "table"}

\* The wiring main builds: ls | glue | where_ | drain.  "glob" stands for the
\* enumerator LsCommand::connect stores in `inner`.
\* With t = "table" a TableCommand is connected to the end of it.
Wired(t) ==
    [ls |-> "glob", glue |-> "ls", where_ |-> "glue", drain |-> "where_",
     table |-> IF t = "table" THEN "drain" ELSE "none"]

\* The same wiring with connect() never called on stage s.
Unwired(t, s) == [Wired(t) EXCEPT ![s] = "none"]

\* Who called stage s: the stage that holds s in its input, or the driver.
Caller(s) == IF s = top THEN "main" ELSE CHOOSE d \in Stages : input[d] = s

\* Capacity of the channel: piper::chan(1).
ChanCap == 1

\* The counter main starts with: AtomicUsize::new(10).
CounterInit == 10

\* Receiver::try_recv: takes one queued message out of the channel, if there is one.
try_recv(c) == [some |-> c > 0, chan |-> IF c > 0 THEN c - 1 ELSE c]

\* Sender::send(()).now_or_never(): queues a message unless the channel is full.
send_now(c) == IF c < ChanCap THEN c + 1 ELSE c

-----------------------------------------------------------------------------
(* The source stage *)

\* What the source's enumerator yields: a path with the file type its metadata
\* gives, a failure (of the glob or of fs::metadata), or, for a stage other
\* than LsCommand, any item a PipelineElement may emit.
PathEv(n, ft) == [k |-> "path", name |-> n, ft |-> ft, item |-> ValueOut(Nothing)]

FailEv == [k |-> "fail", name |-> "", ft |-> "", item |-> ValueOut(Nothing)]

EmitEv(i) == [k |-> "emit", name |-> "", ft |-> "", item |-> i]

\* The Row LsCommand::next builds for a path.
LsRow(n, ft) ==
    Row(<<Field("name", Str(n)),
          Field("type", IF ft = "Dir" THEN Str("Dir")
                        ELSE IF ft = "File" THEN Str("File")
                        ELSE Nothing)>>)

\* The result of one next() of the source for enumerator event ev.
SourceResult(ev) ==
    CASE ev.k = "path" -> Some(ValueOut(LsRow(ev.name, ev.ft)))
      [] ev.k = "fail" -> Err("Source")
      [] ev.k = "emit" -> Some(ev.item)

\* The events scripts are made of.
Events ==
    { PathEv("src", "Dir"),
      PathEv("thirdpart", "Other"),
      PathEv("thirdparty/bar.rs", "File"),
      FailEv,
      EmitEv(ValueOut(Str("x"))),
      EmitEv(ValueOut(Row(<<Field("type", Str("File"))>>))),
      EmitEv(ValueOut(Row(<<Field("name", BoolV(TRUE))>>))),
      EmitEv(ActionOut("Increment")),
      EmitEv(ActionOut("Greet")) }

Scripts == UNION { [1..n -> Events] : n \in 0..MaxScript }

-----------------------------------------------------------------------------
(* Calls and returns *)

\* Stage s returns result r to its caller.  The history keeps, with r, whether
\* a message was queued when the call was entered (sig0), whether an
\* ActionRunner had returned the Interrupted error by then (canc0), whether
\* the value returned was pulled after the handler had sent (after), and the
\* kind of the upstream result the stage saw last in this call (last, "-" if
\* it saw none).
ReturnFrom(s, r, after, last, sig0, canc0) ==
    /\ ret' = r
    /\ pc' = <<Caller(s), "recv">>
    /\ sent' = [sent EXCEPT ![s] =
                   Append(@, [res |-> r, sig0 |-> sig0, canc0 |-> canc0,
                              after |-> after, last |-> last])]

Return(s, r, after, last) ==
    ReturnFrom(s, r, after, last,
               IF s \in Runners THEN sigAtCall[s] ELSE FALSE,
               IF s \in Runners THEN cancAtCall[s] ELSE FALSE)

\* An unconnected stage that reports an error instead of an empty stream.
UnconnectedIsError == Err("NotConnected")

\* What next() returns when `input` (or `inner`) is None: the trailing Ok(None).
Unconnected == None

\* Stage s pulls: it calls next() of the stage in its input.
Pull(s) == pc' = <<input[s], "call">>

-----------------------------------------------------------------------------
(* LsCommand::next, and next() of any other source stage *)

SourceNext ==
    /\ pc = <<"ls", "call">>
    /\ IF input["ls"] = "none"
         THEN /\ Return("ls", Unconnected, FALSE, "-")
              /\ UNCHANGED script
         ELSE IF script = <<>>
           THEN /\ Return("ls", None, FALSE, "None")
                /\ UNCHANGED script
           ELSE /\ Return("ls", SourceResult(Head(script)), FALSE, "Some")
                /\ script' = Tail(script)
    /\ UNCHANGED <<tableVars, feed, input, chan, counter, held, printed, greeted,
                   mode, top, calls, everSet, sigAtCall, heldAfter, cancelled,
                   cancAtCall, recvd>>
    /\ UNCHANGED view

-----------------------------------------------------------------------------
(* ActionRunner::next *)

\* Entry of next(): `if let Some(input) = &mut self.input`, then the first pull.
RunnerCall(r) ==
    /\ pc = <<r, "call">>
    /\ sigAtCall' = [sigAtCall EXCEPT ![r] = chan > 0]
    /\ cancAtCall' = [cancAtCall EXCEPT ![r] = cancelled]
    /\ IF input[r] = "none"
         THEN ReturnFrom(r, Unconnected, FALSE, "-", chan > 0, cancelled)
         ELSE Pull(r) /\ UNCHANGED <<ret, sent>>
    /\ UNCHANGED <<tableVars, feed, input, script, chan, counter, held, printed,
                   greeted, mode, top, calls, everSet, heldAfter, cancelled, recvd>>
    /\ UNCHANGED view

\* `while let Some(res) = input.next().await?`: an error returns at once, None
\* leaves the loop for the trailing Ok(None), Some(res) enters the loop body.
RunnerRecv(r) ==
    /\ pc = <<r, "recv">>
    /\ recvd' = [recvd EXCEPT ![r] = Append(@, ret)]
    /\ CASE ret.t = "Err" ->
              /\ Return(r, ret, FALSE, "Err")
              /\ UNCHANGED <<held, heldAfter>>
         [] ret.t = "None" ->
              /\ Return(r, None, FALSE, "None")
              /\ UNCHANGED <<held, heldAfter>>
         [] ret.t = "Some" ->
              /\ held' = [held EXCEPT ![r] = ret.item]
              /\ heldAfter' = [heldAfter EXCEPT ![r] = everSet]
              /\ pc' = <<r, "check">>
              /\ UNCHANGED <<ret, sent>>
    /\ UNCHANGED <<tableVars, feed, input, script, chan, counter, printed, greeted,
                   mode, top, calls, everSet, sigAtCall, cancelled, cancAtCall>>
    /\ UNCHANGED view

\* RunnerMatch whose Greet arm leaves the loop for the trailing Ok(None).
RunnerMatchGreetEnds(item, c) ==
    CASE item.out = "Action" /\ item.action = "Increment" ->
           [returns |-> FALSE, result |-> None, counter |-> c + 1, hello |-> 0]
      [] item.out = "Action" /\ item.action = "Greet" ->
           [returns |-> TRUE, result |-> None, counter |-> c, hello |-> 1]
      [] item.out = "Value" ->
           [returns |-> TRUE, result |-> Some(ValueOut(item.value)),
            counter |-> c, hello |-> 0]

\* RunnerMatch whose Greet arm adds to the counter as the Increment arm does.
RunnerMatchGreetCounts(item, c) ==
    CASE item.out = "Action" /\ item.action = "Increment" ->
           [returns |-> FALSE, result |-> None, counter |-> c + 1, hello |-> 0]
      [] item.out = "Action" /\ item.action = "Greet" ->
           [returns |-> FALSE, result |-> None, counter |-> c + 1, hello |-> 1]
      [] item.out = "Value" ->
           [returns |-> TRUE, result |-> Some(ValueOut(item.value)),
            counter |-> c, hello |-> 0]

\* `match res`: what the loop body does with the item: the counter after it,
\* the greetings it prints, and whether it returns (and what).
RunnerMatch(item, c) ==
    CASE item.out = "Action" /\ item.action = "Increment" ->
           [returns |-> FALSE, result |-> None, counter |-> c + 1, hello |-> 0]
      [] item.out = "Action" /\ item.action = "Greet" ->
           [returns |-> FALSE, result |-> None, counter |-> c, hello |-> 1]
      [] item.out = "Value" ->
           [returns |-> TRUE, result |-> Some(ValueOut(item.value)),
            counter |-> c, hello |-> 0]

\* The loop body: try_recv on the channel, then the match.
RunnerCheck(r) ==
    /\ pc = <<r, "check">>
    /\ LET got == try_recv(chan)
           m == RunnerMatch(held[r], counter)
       IN  /\ chan' = got.chan
           /\ IF got.some
                THEN /\ Return(r, Err("Interrupted"), FALSE, "Some")
                     /\ cancelled' = TRUE
                     /\ UNCHANGED <<counter, greeted>>
                ELSE /\ counter' = m.counter
                     /\ UNCHANGED cancelled
                     /\ greeted' = greeted + m.hello
                     /\ IF m.returns
                          THEN Return(r, m.result, heldAfter[r], "Some")
                          ELSE Pull(r) /\ UNCHANGED <<ret, sent>>
    /\ UNCHANGED <<tableVars, feed, input, script, held, printed, mode, top, calls,
                   everSet, sigAtCall, heldAfter, cancAtCall, recvd>>
    /\ UNCHANGED view

-----------------------------------------------------------------------------
(* WhereCommand::next *)

\* WherePasses without `if let Value::String(filename) = v`: the field is
\* compared as it is displayed.
WherePassesAnyKind(v) ==
    /\ v.kind = "Row"
    /\ HasField(v.row, "name")
    /\ ~Contains(GetField(v.row, "name").text, "thirdparty")

\* The filter: a Row whose field "name" is a String that does not contain
\* "thirdparty".
WherePasses(v) ==
    /\ v.kind = "Row"
    /\ HasField(v.row, "name")
    /\ GetField(v.row, "name").kind = "String"
    /\ ~Contains(GetField(v.row, "name").text, "thirdparty")

WhereCall ==
    /\ pc = <<"where_", "call">>
    /\ IF input["where_"] = "none"
         THEN Return("where_", Unconnected, FALSE, "-")
         ELSE Pull("where_") /\ UNCHANGED <<ret, sent>>
    /\ UNCHANGED <<tableVars, feed, input, script, chan, counter, held, printed,
                   greeted, mode, top, calls, everSet, sigAtCall, heldAfter,
                   cancelled, cancAtCall, recvd>>
    /\ UNCHANGED view

\* WhereRecv that takes an error of the upstream for an item to drop and
\* pulls again.
WhereRecvSkipsError ==
    /\ pc = <<"where_", "recv">>
    /\ recvd' = [recvd EXCEPT !["where_"] = Append(@, ret)]
    /\ CASE ret.t = "Err" -> Pull("where_") /\ UNCHANGED <<ret, sent>>
         [] ret.t = "None" -> Return("where_", None, FALSE, "None")
         [] ret.t = "Some" ->
              IF WherePasses(ret.item.value)
                THEN Return("where_", Some(ValueOut(ret.item.value)), FALSE, "Some")
                ELSE Pull("where_") /\ UNCHANGED <<ret, sent>>
    /\ UNCHANGED <<tableVars, feed, input, script, chan, counter, held, printed,
                   greeted, mode, top, calls, everSet, sigAtCall, heldAfter,
                   cancelled, cancAtCall>>
    /\ UNCHANGED view

\* `while let Some(inp) = input.next().await?` and the loop body.
WhereRecv ==
    /\ pc = <<"where_", "recv">>
    /\ recvd' = [recvd EXCEPT !["where_"] = Append(@, ret)]
    /\ CASE ret.t = "Err" -> Return("where_", ret, FALSE, "Err")
         [] ret.t = "None" -> Return("where_", None, FALSE, "None")
         [] ret.t = "Some" ->
              IF WherePasses(ret.item.value)
                THEN Return("where_", Some(ValueOut(ret.item.value)), FALSE, "Some")
                ELSE Pull("where_") /\ UNCHANGED <<ret, sent>>
    /\ UNCHANGED <<tableVars, feed, input, script, chan, counter, held, printed,
                   greeted, mode, top, calls, everSet, sigAtCall, heldAfter,
                   cancelled, cancAtCall>>
    /\ UNCHANGED view

-----------------------------------------------------------------------------
(* TableCommand::table *)

STREAM_PAGE_SIZE == 1000

\* A check interval of half the size.
CheckEveryFifty == STREAM_PAGE_SIZE \div 20

STREAM_TIMEOUT_CHECK_INTERVAL == 100

\* The locals of table() as one record, for the code that runs between two pulls.
TableLocals ==
    [finished |-> finished, start_number |-> start_number, delay_slot |-> delay_slot,
     new_input |-> new_input, idx |-> idx, rendered |-> rendered,
     broke |-> FALSE, why |-> "", at |-> ""]

\* values_to_entries: the cell put in front of the row of the i-th value of a
\* page (i from 0, the code's idx): `row.insert(0, ((starting_idx + idx).to_string(), "Fgbr"))`.
IndexCell(starting_idx, i) ==
    [text |-> ToString(starting_idx + i), style |-> "Fgbr"]

\* FlushPage without `start_number += input.len()`.
FlushPageNoAdvance(st) ==
    [st EXCEPT
       !.rendered = IF VecLen(st.new_input) > 0
                      THEN Append(@, [values |-> st.new_input,
                                      starting_idx |-> st.start_number,
                                      why |-> st.why])
                      ELSE @]

\* The end of one `while !finished` iteration: a page that is not empty goes to
\* TableView::from_list with the running start_number and is printed, and
\* start_number moves on by the length of the page.  `why` (history) says what
\* ended the page.
FlushPage(st) ==
    [st EXCEPT
       !.rendered = IF VecLen(st.new_input) > 0
                      THEN Append(@, [values |-> st.new_input,
                                      starting_idx |-> st.start_number,
                                      why |-> st.why])
                      ELSE @,
       !.start_number = @ + VecLen(st.new_input)]

\* TableLoop with the for loop running over 0..=STREAM_PAGE_SIZE: one
\* iteration too many.
RECURSIVE TableLoopInclusive(_)
TableLoopInclusive(st) ==
    IF st.broke \/ st.idx = STREAM_PAGE_SIZE + 1
      THEN LET st1 == FlushPage([st EXCEPT !.why = IF st.broke THEN @ ELSE "cap"])
           IN  IF st1.finished
                 THEN [st1 EXCEPT !.at = "return"]
                 ELSE TableLoopInclusive([st1 EXCEPT !.new_input = <<>>, !.idx = 0,
                                                     !.broke = FALSE, !.why = ""])
      ELSE IF st.delay_slot # <<>>
        THEN TableLoopInclusive([st EXCEPT !.new_input = VecPush(@, st.delay_slot[1]),
                                           !.delay_slot = <<>>,
                                           !.idx = @ + 1])
        ELSE [st EXCEPT !.at = "pull"]

\* TableLoop that empties the delay slot without pushing its value on the new
\* page.
RECURSIVE TableLoopDropsSlot(_)
TableLoopDropsSlot(st) ==
    IF st.broke \/ st.idx = STREAM_PAGE_SIZE
      THEN LET st1 == FlushPage([st EXCEPT !.why = IF st.broke THEN @ ELSE "cap"])
           IN  IF st1.finished
                 THEN [st1 EXCEPT !.at = "return"]
                 ELSE TableLoopDropsSlot([st1 EXCEPT !.new_input = <<>>, !.idx = 0,
                                                     !.broke = FALSE, !.why = ""])
      ELSE IF st.delay_slot # <<>>
        THEN TableLoopDropsSlot([st EXCEPT !.delay_slot = <<>>, !.idx = @ + 1])
        ELSE [st EXCEPT !.at = "pull"]

\* The code of table() from a place in the for loop to the next pull of the
\* upstream (at = "pull") or to the return (at = "return"): the end of the for
\* loop (a break, or idx at STREAM_PAGE_SIZE), the flush, the next `while`
\* iteration, and the iterations of the for loop that take the delay slot.
RECURSIVE TableLoop(_)
TableLoop(st) ==
    IF st.broke \/ st.idx = STREAM_PAGE_SIZE
      THEN LET st1 == FlushPage([st EXCEPT !.why = IF st.broke THEN @ ELSE "cap"])
           IN  IF st1.finished
                 THEN [st1 EXCEPT !.at = "return"]
                 ELSE TableLoop([st1 EXCEPT !.new_input = <<>>, !.idx = 0,
                                            !.broke = FALSE, !.why = ""])
      ELSE IF st.delay_slot # <<>>
        THEN TableLoop([st EXCEPT !.new_input = VecPush(@, st.delay_slot[1]),
                                  !.delay_slot = <<>>,
                                  !.idx = @ + 1])
        ELSE [st EXCEPT !.at = "pull"]

\* TableOnResult without the comparison of column_names: every value is pushed
\* on the page being accumulated.
TableOnResultNoCompare(st, r, late) ==
    IF r.t = "Some"
      THEN LET a == r.item.value
           IN  IF (st.idx + 1) % STREAM_TIMEOUT_CHECK_INTERVAL = 0 /\ late
                 THEN [st EXCEPT !.new_input = VecPush(@, a),
                                 !.broke = TRUE, !.why = "timeout"]
                 ELSE [st EXCEPT !.new_input = VecPush(@, a), !.idx = @ + 1]
      ELSE [st EXCEPT !.finished = TRUE, !.broke = TRUE, !.why = "end"]

\* TableOnResult that breaks on a value of other columns without keeping it
\* in delay_slot: the value is lost.
TableOnResultNoDelaySlot(st, r, late) ==
    IF r.t = "Some"
      THEN LET a == r.item.value
           IN  IF /\ st.new_input # <<>>
                  /\ column_names(st.new_input[1].v) # column_names(a)
                 THEN [st EXCEPT !.broke = TRUE, !.why = "schema"]
                 ELSE IF (st.idx + 1) % STREAM_TIMEOUT_CHECK_INTERVAL = 0 /\ late
                   THEN [st EXCEPT !.new_input = VecPush(@, a),
                                   !.broke = TRUE, !.why = "timeout"]
                   ELSE [st EXCEPT !.new_input = VecPush(@, a), !.idx = @ + 1]
      ELSE [st EXCEPT !.finished = TRUE, !.broke = TRUE, !.why = "end"]

\* TableOnResult that leaves the for loop at a None of the upstream without
\* setting `finished`.
TableOnResultNoFinish(st, r, late) ==
    IF r.t = "Some"
      THEN LET a == r.item.value
           IN  IF /\ st.new_input # <<>>
                  /\ column_names(st.new_input[1].v) # column_names(a)
                 THEN [st EXCEPT !.delay_slot = <<a>>, !.broke = TRUE, !.why = "schema"]
                 ELSE IF (st.idx + 1) % STREAM_TIMEOUT_CHECK_INTERVAL = 0 /\ late
                   THEN [st EXCEPT !.new_input = VecPush(@, a),
                                   !.broke = TRUE, !.why = "timeout"]
                   ELSE [st EXCEPT !.new_input = VecPush(@, a), !.idx = @ + 1]
      ELSE [st EXCEPT !.broke = TRUE, !.why = "end"]

\* The match on what the upstream returned, for Some(a) and None, with `late`
\* the outcome of the time check (a second or more since the page started).
TableOnResult(st, r, late) ==
    IF r.t = "Some"
      THEN LET a == r.item.value
           IN  IF /\ st.new_input # <<>>
                  /\ column_names(st.new_input[1].v) # column_names(a)
                 THEN [st EXCEPT !.delay_slot = <<a>>, !.broke = TRUE, !.why = "schema"]
                 ELSE IF (st.idx + 1) % STREAM_TIMEOUT_CHECK_INTERVAL = 0 /\ late
                   THEN [st EXCEPT !.new_input = VecPush(@, a),
                                   !.broke = TRUE, !.why = "timeout"]
                   ELSE [st EXCEPT !.new_input = VecPush(@, a), !.idx = @ + 1]
      ELSE [st EXCEPT !.finished = TRUE, !.broke = TRUE, !.why = "end"]

\* The time check runs after a value was pushed at an idx with
\* (idx + 1) % STREAM_TIMEOUT_CHECK_INTERVAL = 0.
TimeChecked(st, r) ==
    /\ r.t = "Some"
    /\ ~(/\ st.new_input # <<>>
         /\ column_names(st.new_input[1].v) # column_names(r.item.value))
    /\ (st.idx + 1) % STREAM_TIMEOUT_CHECK_INTERVAL = 0

\* Most time checks of one run that find a second or more elapsed.
MaxTimeouts == 1

SetLocals(st) ==
    /\ finished' = st.finished
    /\ start_number' = st.start_number
    /\ delay_slot' = st.delay_slot
    /\ new_input' = st.new_input
    /\ idx' = st.idx
    /\ rendered' = st.rendered
    /\ flushed' = (Len(st.rendered) > Len(rendered))

\* Entry of table(): the locals, `if let Some(input) = &mut self.input`, and
\* the way to the first pull.
TableCall ==
    /\ pc = <<"table", "call">>
    /\ LET st0 == [TableLocals EXCEPT !.finished = FALSE, !.start_number = 0,
                                      !.delay_slot = <<>>, !.new_input = <<>>,
                                      !.idx = 0]
       IN  IF input["table"] = "none"
             THEN /\ SetLocals(st0)
                  /\ Return("table", Unconnected, FALSE, "-")
             ELSE /\ SetLocals(TableLoop(st0))
                  /\ Pull("table")
                  /\ UNCHANGED <<ret, sent>>
    /\ UNCHANGED <<pipeVars, feed, feedPos, timeouts, input, mode, top, recvd>>
    /\ UNCHANGED view

\* TableRecv that renders the page it has buffered before it returns an error
\* of the upstream.
TableRecvFlushesOnError ==
    /\ pc = <<"table", "recv">>
    /\ IF ret.t = "Err"
         THEN /\ Return("table", ret, FALSE, "Err")
              /\ SetLocals(FlushPage([TableLocals EXCEPT !.why = "error"]))
              /\ UNCHANGED timeouts
         ELSE \E late \in IF /\ TimeChecked(TableLocals, ret)
                               /\ feed.slow
                               /\ timeouts < MaxTimeouts
                            THEN BOOLEAN ELSE {FALSE} :
                LET st == TableLoop(TableOnResult(TableLocals, ret, late))
                IN  /\ SetLocals(st)
                    /\ timeouts' = IF late THEN timeouts + 1 ELSE timeouts
                    /\ IF st.at = "return"
                         THEN Return("table", None, FALSE, ret.t)
                         ELSE Pull("table") /\ UNCHANGED <<ret, sent>>
    /\ UNCHANGED <<pipeVars, feed, feedPos, input, mode, top, recvd>>
    /\ UNCHANGED view

\* `match input.next().await?` and the code up to the next pull or the return.
TableRecv ==
    /\ pc = <<"table", "recv">>
    /\ IF ret.t = "Err"
         THEN /\ Return("table", ret, FALSE, "Err")
              /\ flushed' = FALSE
              /\ UNCHANGED <<finished, start_number, delay_slot, new_input, idx,
                             rendered, timeouts>>
         ELSE \E late \in IF /\ TimeChecked(TableLocals, ret)
                               /\ feed.slow
                               /\ timeouts < MaxTimeouts
                            THEN BOOLEAN ELSE {FALSE} :
                LET st == TableLoop(TableOnResult(TableLocals, ret, late))
                IN  /\ SetLocals(st)
                    /\ timeouts' = IF late THEN timeouts + 1 ELSE timeouts
                    /\ IF st.at = "return"
                         THEN Return("table", None, FALSE, ret.t)
                         ELSE Pull("table") /\ UNCHANGED <<ret, sent>>
    /\ UNCHANGED <<pipeVars, feed, feedPos, input, mode, top, recvd>>
    /\ UNCHANGED view

-----------------------------------------------------------------------------
(* A Connector that yields a given stream: the table's upstream *)

\* Segments a stream is made of: `len` values with the columns `cols` and the
\* text `val` in every cell.
Seg(cols, len) == [cols |-> cols, len |-> len, val |-> "x"]

RECURSIVE FeedLen(_)
FeedLen(segs) == IF segs = <<>> THEN 0 ELSE Head(segs).len + FeedLen(Tail(segs))

\* The segment of the p-th value of the stream.
RECURSIVE FeedSeg(_, _)
FeedSeg(segs, p) ==
    IF p <= Head(segs).len THEN Head(segs)
    ELSE FeedSeg(Tail(segs), p - Head(segs).len)

\* The p-th value of the stream: a Row of the segment's columns, or a String
\* when there are none.
FeedValue(segs, p) ==
    LET g == FeedSeg(segs, p)
    IN  IF g.cols = <<>> THEN Str(g.val)
        ELSE Row([i \in 1..Len(g.cols) |-> Field(g.cols[i], Str(g.val))])

\* next() of that upstream: the values in order, then an error if the stream
\* ends in one, then None for good.
FeedNext ==
    /\ pc = <<"feed", "call">>
    /\ pc' = <<"table", "recv">>
    /\ feedPos' = IF feedPos <= FeedLen(feed.segs) THEN feedPos + 1 ELSE feedPos
    /\ ret' = IF feedPos < FeedLen(feed.segs)
                THEN Some(ValueOut(FeedValue(feed.segs, feedPos + 1)))
                ELSE IF feedPos = FeedLen(feed.segs) /\ feed.fails
                  THEN Err("Upstream")
                  ELSE None
    /\ UNCHANGED <<pipeVars, finished, start_number, delay_slot, new_input, idx,
                   rendered, timeouts, flushed, feed, input, mode, top, recvd, sent>>
    /\ UNCHANGED view

\* Most segments of a short stream.
MaxSegs == 3

SegCols == {<<"a">>, <<"a", "b">>, <<>>}

\* Short streams: any segments of one or two values.
ShortSegs ==
    UNION { [1..n -> [cols : SegCols, len : {1, 2}, val : {"x", "y"}]] :
              n \in 0..MaxSegs }

\* Long streams: a run of one shape, alone, or followed by one value of
\* another shape, or by that and one more value of the first shape, or by two
\* different values of the other shape and one more of the first.
LongLens == {STREAM_TIMEOUT_CHECK_INTERVAL, 500, STREAM_PAGE_SIZE, 2500}

LongSegs ==
    { <<Seg(<<"a">>, n)>> \o tail :
        n \in LongLens,
        tail \in { <<>>,
                   <<Seg(<<"a", "b">>, 1)>>,
                   <<Seg(<<"a", "b">>, 1), Seg(<<"a">>, 1)>>,
                   <<Seg(<<"a", "b">>, 1),
                     [cols |-> <<"a", "b">>, len |-> 1, val |-> "y"],
                     Seg(<<"a">>, 1)>> } }

\* The streams: `fails` says the stream ends in an error instead of None,
\* `slow` that the upstream may take a second or more over a value.  A slow
\* stream is at most a page and its tail long.
Feeds ==
    { f \in [segs : ShortSegs \cup LongSegs, fails : BOOLEAN, slow : BOOLEAN] :
        f.slow => f.segs \in LongSegs /\ FeedLen(f.segs) <= STREAM_PAGE_SIZE + 3 }

-----------------------------------------------------------------------------
(* TableView: from_list and print_view *)

\* Value::List: the items are kept as fields without a name.
ListV(items) ==
    [kind |-> "List", text |-> "", row |-> [i \in 1..Len(items) |-> Field("", items[i])]]

\* impl Display for Value.
RECURSIVE Display(_)
RECURSIVE DisplayItems(_, _, _)
DisplayItems(fields, i, named) ==
    IF i > Len(fields) THEN ""
    ELSE (IF i > 1 THEN ", " ELSE "")
         \o (IF named THEN fields[i].name \o ": " ELSE "")
         \o Display(fields[i].val)
         \o DisplayItems(fields, i + 1, named)

Display(v) ==
    CASE v.kind = "String" -> v.text
      [] v.kind = "Bool" -> v.text
      [] v.kind = "Row" -> "{" \o DisplayItems(v.row, 1, TRUE) \o "}"
      [] v.kind = "List" -> "[" \o DisplayItems(v.row, 1, FALSE) \o "]"
      [] v.kind = "Nothing" -> ""

\* Vec::contains
InVec(q, x) == \E i \in 1..Len(q) : q[i] = x

\* The inner loop without the `contains` test: every name is pushed.
PushAll(hs, descs) == hs \o descs

\* The inner loop of merge_descriptors: the names not yet in `ret` (hs) are
\* pushed.
RECURSIVE PushNew(_, _)
PushNew(hs, descs) ==
    IF descs = <<>> THEN hs
    ELSE PushNew(IF InVec(hs, Head(descs)) THEN hs ELSE Append(hs, Head(descs)),
                 Tail(descs))

\* The loop of merge_descriptors over the values left, from the headers so far.
RECURSIVE MergeInto(_, _)
MergeInto(hs, values) ==
    IF values = <<>> THEN hs
    ELSE LET descs == column_names(Head(values))
         IN  MergeInto(IF descs = <<>>
                         THEN (IF InVec(hs, "") THEN hs ELSE Append(hs, ""))
                         ELSE PushNew(hs, descs),
                       Tail(values))

merge_descriptors(values) == MergeInto(<<>>, values)

\* A cell: its text and its prettytable style.
Cell(text, style) == [text |-> text, style |-> style]

\* values_to_entries: the cell of value under header d.
EntryCell(value, d) ==
    IF d = ""
      THEN (IF value.kind = "Row" THEN Cell("", "") ELSE Cell(Display(value), ""))
      ELSE IF value.kind = "Row"
        THEN (IF HasField(value.row, d)
                THEN Cell(Display(GetField(value.row, d)), "")
                ELSE Cell("", ""))
        ELSE Cell(Display(value), "")

\* values_to_entries: the headers as it leaves them (an anonymous header is
\* pushed if there is none) and the rows, each with its index cell in front.
values_to_entries(values, headers, starting_idx) ==
    LET hs == IF headers = <<>> THEN <<"">> ELSE headers
    IN  [headers |-> hs,
         entries |-> [r \in 1..Len(values) |->
                        <<IndexCell(starting_idx, r - 1)>>
                        \o [h \in 1..Len(hs) |-> EntryCell(values[r], hs[h])]]]

\* The largest of a set of numbers, 0 if there is none.
MaxOf(S) == IF S = {} THEN 0 ELSE CHOOSE x \in S : \A y \in S : y <= x

\* max_per_column: for i in 0..headers.len(), the longest of entry[i] over the
\* first values_len rows and of headers[i].
max_per_column(headers, entries, values_len) ==
    [i \in 1..Len(headers) |->
        MaxOf({Len(entries[r][i].text) :
                 r \in 1..(IF values_len < Len(entries) THEN values_len ELSE Len(entries))}
              \cup {Len(headers[i])})]

\* Vec::truncate
Truncate(q, n) == IF n < Len(q) THEN SubSeq(q, 1, n) ELSE q

\* maybe_truncate_columns without the loop that truncates the rows.
TruncateHeadersOnly(headers, entries, termwidth) ==
    LET max_num_of_columns == termwidth \div 10
    IN  IF max_num_of_columns < Len(headers)
          THEN [headers |-> Append(Truncate(headers, max_num_of_columns), "..."),
                entries |-> [r \in 1..Len(entries) |->
                               Append(entries[r], Cell("...", "c"))]]
          ELSE [headers |-> headers, entries |-> entries]

\* maybe_truncate_columns without the test: nothing is ever truncated.
NeverTruncate(headers, entries, termwidth) ==
    [headers |-> headers, entries |-> entries]

\* maybe_truncate_columns: the headers and the rows as it leaves them.
maybe_truncate_columns(headers, entries, termwidth) ==
    LET max_num_of_columns == termwidth \div 10
    IN  IF max_num_of_columns < Len(headers)
          THEN [headers |-> Append(Truncate(headers, max_num_of_columns), "..."),
                entries |-> [r \in 1..Len(entries) |->
                               Append(Truncate(entries[r], max_num_of_columns),
                                      Cell("...", "c"))]]
          ELSE [headers |-> headers, entries |-> entries]

\* The width the table may take: std::cmp::max(textwrap::termwidth() - 7, 20).
TermWidth(cols) == IF cols - 7 > 20 THEN cols - 7 ELSE 20

\* max_naive_column_width = (termwidth - 3 * (headers_len - 1)) / headers_len,
\* and whether the usize arithmetic is defined: no division by zero and no
\* subtraction below zero (a panic of the debug build).
NaiveWidthDefined(termwidth, headers_len) ==
    headers_len > 0 /\ 3 * (headers_len - 1) <= termwidth

NaiveWidth(termwidth, headers_len) ==
    (termwidth - 3 * (headers_len - 1)) \div headers_len

\* What column i (from 0) adds for its separators.
Separators(i, headers_len) ==
    (IF i # headers_len - 1 THEN 3 ELSE 0) + (IF i = 0 THEN 1 ELSE 0)

\* ColumnSpace::measure: the loop from column i (from 0) on.
RECURSIVE MeasureFrom(_, _, _, _, _)
MeasureFrom(cs, i, widths, max_naive_column_width, headers_len) ==
    IF i >= Len(widths) \/ i >= headers_len THEN cs
    ELSE LET column_max == widths[i + 1]
         IN  MeasureFrom(
                 IF column_max > max_naive_column_width
                   THEN [cs EXCEPT !.num_overages = @ + 1,
                                   !.overage_separator_sum = @ + Separators(i, headers_len)]
                   ELSE [cs EXCEPT !.underage_sum =
                                       @ + column_max + Separators(i, headers_len)],
                 i + 1, widths, max_naive_column_width, headers_len)

ColumnSpace(n, u, o) ==
    [num_overages |-> n, underage_sum |-> u, overage_separator_sum |-> o]

measure(widths, max_naive_column_width, headers_len) ==
    MeasureFrom(ColumnSpace(0, 0, 0), 0, widths, max_naive_column_width, headers_len)

\* fix_almost_column_width without its loop: no column is looked at again.
FixNothing(self, widths, max_naive_column_width, max_column_width, headers_len) ==
    self

\* ColumnSpace::fix_almost_column_width: the loop from column i (from 0) on.
RECURSIVE FixFrom(_, _, _, _, _, _)
FixFrom(cs, i, widths, max_naive_column_width, max_column_width, headers_len) ==
    IF i >= Len(widths) \/ i >= headers_len THEN cs
    ELSE LET column_max == widths[i + 1]
         IN  FixFrom(
                 IF column_max > max_naive_column_width
                   THEN IF column_max <= max_column_width
                          THEN [cs EXCEPT !.underage_sum =
                                              @ + column_max + Separators(i, headers_len)]
                          ELSE [cs EXCEPT !.num_overages = @ + 1,
                                          !.overage_separator_sum =
                                              @ + Separators(i, headers_len)]
                   ELSE cs,
                 i + 1, widths, max_naive_column_width, max_column_width, headers_len)

fix_almost_column_width(self, widths, max_naive_column_width, max_column_width, headers_len) ==
    FixFrom(ColumnSpace(0, self.underage_sum, 0), 0, widths,
            max_naive_column_width, max_column_width, headers_len)

\* ColumnSpace::max_width, and whether its usize arithmetic is defined.
MaxWidthDefined(self, termwidth) ==
    self.num_overages > 0 =>
        termwidth >= 1 + self.underage_sum + self.overage_separator_sum

max_width(self, termwidth) ==
    IF self.num_overages > 0
      THEN (termwidth - 1 - self.underage_sum - self.overage_separator_sum)
           \div self.num_overages
      ELSE 99999

\* The words of a text: its parts between single spaces.
RECURSIVE Words(_)
Words(text) ==
    IF \E i \in 1..Len(text) : SubSeq(text, i, i) = " "
      THEN LET i == CHOOSE k \in 1..Len(text) :
                      /\ SubSeq(text, k, k) = " "
                      /\ \A j \in 1..(k - 1) : SubSeq(text, j, j) # " "
           IN  <<SubSeq(text, 1, i - 1)>> \o Words(SubSeq(text, i + 1, Len(text)))
      ELSE <<text>>

\* textwrap::fill from a place in a line: the words left, the width, and the
\* length of the line so far.  A word that fits goes on the line, one that
\* does not starts a new line, and one longer than a line is broken.
RECURSIVE FillWords(_, _, _)
FillWords(words, width, col) ==
    IF words = <<>> THEN ""
    ELSE LET w == Head(words)
         IN  IF col = 0
               THEN IF Len(w) <= width \/ width < 1
                      THEN w \o FillWords(Tail(words), width, Len(w))
                      ELSE SubSeq(w, 1, width) \o "\n"
                           \o FillWords(<<SubSeq(w, width + 1, Len(w))>> \o Tail(words),
                                        width, 0)
               ELSE IF col + 1 + Len(w) <= width
                      THEN " " \o w \o FillWords(Tail(words), width, col + 1 + Len(w))
                      ELSE "\n" \o FillWords(words, width, 0)

\* textwrap::fill(text, width)
fill(text, width) == IF text = "" THEN "" ELSE FillWords(Words(text), width, 0)

\* wrap_cells filling to the naive width instead of the final one.
WrapNaive(headers, entries, widths, max_naive_column_width, max_column_width) ==
    [headers |-> [h \in 1..Len(headers) |->
                    IF widths[h] > max_naive_column_width
                      THEN fill(headers[h], max_naive_column_width)
                      ELSE headers[h]],
     entries |-> [r \in 1..Len(entries) |->
                    [c \in 1..Len(entries[r]) |->
                       IF c <= Len(headers) /\ widths[c] > max_naive_column_width
                         THEN [entries[r][c] EXCEPT
                                 !.text = fill(@, max_naive_column_width)]
                         ELSE entries[r][c]]]]

\* wrap_cells: the TableView it returns.
wrap_cells(headers, entries, widths, max_naive_column_width, max_column_width) ==
    [headers |-> [h \in 1..Len(headers) |->
                    IF widths[h] > max_naive_column_width
                      THEN fill(headers[h], max_column_width)
                      ELSE headers[h]],
     entries |-> [r \in 1..Len(entries) |->
                    [c \in 1..Len(entries[r]) |->
                       IF c <= Len(headers) /\ widths[c] > max_naive_column_width
                         THEN [entries[r][c] EXCEPT
                                 !.text = fill(@, max_column_width)]
                         ELSE entries[r][c]]]]

\* print_view: `skip_headers`.
skip_headers(headers) ==
    \/ Len(headers) = 2 /\ headers[2] = ""
    \/ Len(headers) = 1 /\ headers[1] = ""

\* The arguments and locals of from_list before it is called.
NoView ==
    [cols |-> 0, values |-> <<>>, starting_idx |-> 0, termwidth |-> 0,
     headers |-> <<>>, entries |-> <<>>, max_per_column |-> <<>>,
     max_naive_column_width |-> 0, column_space |-> ColumnSpace(0, 0, 0),
     max_column_width |-> 0, titled |-> FALSE]

\* All variables but view and pc.
restVars == <<input, mode, top, feed, ret, recvd, sent, pipeVars, tableVars>>

\* from_list up to merge_descriptors: None for the empty list.
ViewFromList ==
    /\ pc = <<"from_list", "call">>
    /\ IF view.values = <<>>
         THEN pc' = <<"from_list", "none">> /\ UNCHANGED view
         ELSE /\ view' = [view EXCEPT !.termwidth = TermWidth(view.cols),
                                      !.headers = merge_descriptors(view.values)]
              /\ pc' = <<"from_list", "entries">>
    /\ UNCHANGED restVars

ViewEntries ==
    /\ pc = <<"from_list", "entries">>
    /\ LET e == values_to_entries(view.values, view.headers, view.starting_idx)
       IN  view' = [view EXCEPT !.headers = e.headers, !.entries = e.entries]
    /\ pc' = <<"from_list", "max_per_column">>
    /\ UNCHANGED restVars

ViewMaxPerColumn ==
    /\ pc = <<"from_list", "max_per_column">>
    /\ view' = [view EXCEPT !.max_per_column =
                    max_per_column(view.headers, view.entries, Len(view.values))]
    /\ pc' = <<"from_list", "truncate">>
    /\ UNCHANGED restVars

ViewTruncate ==
    /\ pc = <<"from_list", "truncate">>
    /\ LET t == maybe_truncate_columns(view.headers, view.entries, view.termwidth)
       IN  view' = [view EXCEPT !.headers = t.headers, !.entries = t.entries]
    /\ pc' = <<"from_list", "measure">>
    /\ UNCHANGED restVars

\* max_naive_column_width, ColumnSpace::measure and the first max_width.
ViewMeasure ==
    /\ pc = <<"from_list", "measure">>
    /\ LET headers_len == Len(view.headers)
           naive == NaiveWidth(view.termwidth, headers_len)
           cs == measure(view.max_per_column, naive, headers_len)
       IN  IF /\ NaiveWidthDefined(view.termwidth, headers_len)
              /\ MaxWidthDefined(cs, view.termwidth)
             THEN /\ view' = [view EXCEPT !.max_naive_column_width = naive,
                                          !.column_space = cs,
                                          !.max_column_width =
                                              max_width(cs, view.termwidth)]
                  /\ pc' = <<"from_list", "fix">>
             ELSE pc' = <<"from_list", "panic">> /\ UNCHANGED view
    /\ UNCHANGED restVars

\* fix_almost_column_width and the second max_width.
ViewFix ==
    /\ pc = <<"from_list", "fix">>
    /\ LET cs == fix_almost_column_width(view.column_space, view.max_per_column,
                                         view.max_naive_column_width,
                                         view.max_column_width, Len(view.headers))
       IN  IF MaxWidthDefined(cs, view.termwidth)
             THEN /\ view' = [view EXCEPT !.column_space = cs,
                                          !.max_column_width =
                                              max_width(cs, view.termwidth)]
                  /\ pc' = <<"from_list", "wrap">>
             ELSE pc' = <<"from_list", "panic">> /\ UNCHANGED view
    /\ UNCHANGED restVars

\* wrap_cells and the return of Some(table_view).
ViewWrap ==
    /\ pc = <<"from_list", "wrap">>
    /\ LET t == wrap_cells(view.headers, view.entries, view.max_per_column,
                           view.max_naive_column_width, view.max_column_width)
       IN  view' = [view EXCEPT !.headers = t.headers, !.entries = t.entries]
    /\ pc' = <<"print_view", "call">>
    /\ UNCHANGED restVars

\* print_view: the titles are set unless skip_headers.
ViewPrint ==
    /\ pc = <<"print_view", "call">>
    /\ view' = [view EXCEPT !.titled = view.entries # <<>> /\ ~skip_headers(view.headers)]
    /\ pc' = <<"print_view", "done">>
    /\ UNCHANGED restVars

\* Most values of a list given to from_list.
MaxRows == 2

Text9 == "012345678"

Text11 == "0123456789a"

Text13 == "0123456789abc"

Text30 == "0123456789abcdefghijklmnopqrst"

\* A Row of n fields h1 .. hn.
WideRow(n) == Row([i \in 1..n |-> Field("h" \o ToString(i), Str("x"))])

\* The values lists are made of.
ViewValues ==
    { Str("x"), Str(Text13), Str(Text30), Nothing, BoolV(TRUE),
      ListV(<<Str("x"), BoolV(FALSE)>>),
      Row(<<>>),
      Row(<<Field("a", Str("x"))>>),
      Row(<<Field("a", Str(Text13)), Field("b", Str("x"))>>),
      Row(<<Field("b", Str("x")), Field("c", Str(Text30))>>),
      Row(<<Field(Text13, Row(<<Field("a", Str("x"))>>))>>),
      Row(<<Field("a", Str(Text9)), Field("b", Str(Text11)), Field("c", Str("x"))>>),
      Row(<<Field("a", Str(Text9)), Field("b", Str(Text30)), Field("c", Str("x"))>>),
      WideRow(15) }

ViewLists == UNION { [1..n -> ViewValues] : n \in 0..MaxRows }

\* Widths of the terminal: textwrap::termwidth().
TermCols == {10, 27, 37, 107}

-----------------------------------------------------------------------------
(* The driver *)

\* main: `while let Some(res) = drain.next().await?`.  The polling client
\* calls next() again whatever the last call returned.
DriverCall ==
    /\ pc = <<"main", "loop">>
    /\ mode = "poll" => calls < MaxCalls
    /\ calls' = IF mode = "poll" THEN calls + 1 ELSE calls
    /\ pc' = <<top, "call">>
    /\ UNCHANGED <<tableVars, feed, input, script, chan, counter, ret, held,
                   printed, greeted, mode, top, everSet, sigAtCall, heldAfter,
                   cancelled, cancAtCall, recvd, sent>>
    /\ UNCHANGED view

DriverRecv ==
    /\ pc = <<"main", "recv">>
    /\ IF mode = "poll"
         THEN pc' = <<"main", "loop">> /\ UNCHANGED printed
         ELSE CASE ret.t = "Err" -> pc' = <<"main", "failed">> /\ UNCHANGED printed
                [] ret.t = "None" -> pc' = <<"main", "done">> /\ UNCHANGED printed
                [] ret.t = "Some" ->
                     /\ printed' = Append(printed, ret.item.value)
                     /\ pc' = <<"main", "loop">>
    /\ UNCHANGED <<tableVars, feed, input, script, chan, counter, ret, held,
                   greeted, mode, top, calls, everSet, sigAtCall, heldAfter,
                   cancelled, cancAtCall, recvd, sent>>
    /\ UNCHANGED view

\* The Ctrl-C handler: `let _ = s.send(()).now_or_never()`.  A send into the
\* full channel is dropped and changes nothing.
CtrlC ==
    /\ pc[2] \notin {"done", "failed"}
    /\ chan < ChanCap
    /\ chan' = send_now(chan)
    /\ everSet' = TRUE
    /\ UNCHANGED <<tableVars, feed, input, script, counter, pc, ret, held,
                   printed, greeted, mode, top, calls, sigAtCall, heldAfter,
                   cancelled, cancAtCall, recvd, sent>>
    /\ UNCHANGED view

-----------------------------------------------------------------------------
(* The pipeline of main *)

\* The table's variables before table() has run.
TableInit ==
    /\ finished = FALSE
    /\ start_number = 0
    /\ delay_slot = <<>>
    /\ new_input = <<>>
    /\ idx = 0
    /\ rendered = <<>>
    /\ feedPos = 0
    /\ timeouts = 0
    /\ flushed = FALSE

\* The pipeline's variables before it has run.
PipeInit ==
    /\ chan = 0
    /\ counter = CounterInit
    /\ held = [r \in Runners |-> ValueOut(Nothing)]
    /\ printed = <<>>
    /\ greeted = 0
    /\ calls = 0
    /\ everSet = FALSE
    /\ sigAtCall = [r \in Runners |-> FALSE]
    /\ heldAfter = [r \in Runners |-> FALSE]
    /\ cancelled = FALSE
    /\ cancAtCall = [r \in Runners |-> FALSE]

Init ==
    /\ mode \in {"main", "poll"}
    /\ top \in {"drain", "table"}
    /\ top = "table" => mode = "main"
    /\ input \in {Wired(top)} \cup {Unwired(top, s) : s \in Stages}
    /\ script \in Scripts
    /\ PipeInit
    /\ pc = <<"main", "loop">>
    /\ ret = None
    /\ recvd = [s \in Stages |-> <<>>]
    /\ sent = [s \in Stages |-> <<>>]
    /\ TableInit
    /\ feed = [segs |-> <<>>, fails |-> FALSE, slow |-> FALSE]
    /\ view = NoView

Next ==
    \/ SourceNext
    \/ \E r \in Runners : RunnerCall(r)
    \/ \E r \in Runners : RunnerRecv(r)
    \/ \E r \in Runners : RunnerCheck(r)
    \/ WhereCall
    \/ WhereRecv
    \/ DriverCall
    \/ DriverRecv
    \/ CtrlC
    \/ TableCall
    \/ TableRecv

Spec == Init /\ [][Next]_vars

-----------------------------------------------------------------------------
(* The table over a given stream *)

InitTable ==
    /\ mode = "main"
    /\ top = "table"
    /\ input = [s \in Stages |-> IF s = "table" THEN "feed" ELSE "none"]
    /\ feed \in Feeds
    /\ script = <<>>
    /\ PipeInit
    /\ pc = <<"main", "loop">>
    /\ ret = None
    /\ recvd = [s \in Stages |-> <<>>]
    /\ sent = [s \in Stages |-> <<>>]
    /\ TableInit
    /\ view = NoView

NextTable ==
    \/ DriverCall
    \/ DriverRecv
    \/ TableCall
    \/ FeedNext
    \/ TableRecv

SpecTable == InitTable /\ [][NextTable]_vars

\* The same with the executor running the task as long as it can run: table()
\* is one future that main's smol::run drives to its end.
FairSpecTable == SpecTable /\ WF_vars(NextTable)

-----------------------------------------------------------------------------
(* TableView::from_list and print_view over a given list *)

InitView ==
    /\ mode = "main"
    /\ top = "table"
    /\ input = [s \in Stages |-> "none"]
    /\ feed = [segs |-> <<>>, fails |-> FALSE, slow |-> FALSE]
    /\ script = <<>>
    /\ PipeInit
    /\ TableInit
    /\ ret = None
    /\ recvd = [s \in Stages |-> <<>>]
    /\ sent = [s \in Stages |-> <<>>]
    /\ pc = <<"from_list", "call">>
    /\ \E values \in ViewLists, cols \in TermCols, starting_idx \in {0, 999} :
          view = [NoView EXCEPT !.values = values, !.cols = cols,
                                !.starting_idx = starting_idx]

NextView ==
    \/ ViewFromList
    \/ ViewEntries
    \/ ViewMaxPerColumn
    \/ ViewTruncate
    \/ ViewMeasure
    \/ ViewFix
    \/ ViewWrap
    \/ ViewPrint

SpecView == InitView /\ [][NextView]_vars

-----------------------------------------------------------------------------
(* Cancellation *)

Cancelled == Err("Interrupted")

\* The returns of stage s so far.
Returns(s) == {sent[s][i] : i \in 1..Len(sent[s])}

\* C1: once the cancellation signal is set, the next call of
\* ActionRunner::next returns Cancelled whatever the upstream yields (a value,
\* a control signal or the end of the stream), and no value pulled from the
\* upstream after the signal was set is returned or printed.  Stated here for
\* the pipeline as main wires it and a call entered with the message queued
\* whose upstream does not fail.
C1_CancelledOnNextCall ==
    input = Wired(top) =>
        \A r \in Runners : \A c \in Returns(r) :
            /\ (c.sig0 /\ c.last # "Err") => c.res = Cancelled
            /\ c.res.t = "Some" => ~c.after

\* C2: the signal is level-triggered: once a next() has returned Cancelled,
\* every later next() of either adapter returns Cancelled too and yields no
\* value.  Stated here for the later calls that get an item from upstream.
C2_CancelStaysSet ==
    input = Wired(top) =>
        \A r \in Runners : \A c \in Returns(r) :
            (c.canc0 /\ c.last = "Some") => c.res = Cancelled

\* C18: an ActionRunner reads the cancellation signal before each pull of its
\* upstream: if the signal is set when an iteration of its loop begins (at
\* the entry of next(), or after an Action was handled), it returns Cancelled
\* without calling the upstream's next(), so the upstream is not advanced.
C18_CheckBeforePull ==
    [][\A r \in Runners :
         (/\ pc \in {<<r, "call">>, <<r, "check">>}
          /\ input[r] # "none"
          /\ chan > 0
          /\ pc' # pc) =>
             /\ pc' # <<input[r], "call">>
             /\ ret' = Cancelled]_vars

-----------------------------------------------------------------------------
(* Stages *)

\* C7: next() of a stage that was not connected returns Ok(None): no error,
\* and nothing done to the counter or to the cancellation signal (nor printed,
\* rendered or pulled).
C7_UnconnectedIsEmpty ==
    [][\A s \in Stages :
         (pc = <<s, "call">> /\ input[s] = "none" /\ pc' # pc) =>
             /\ ret' = None
             /\ pc' = <<Caller(s), "recv">>
             /\ counter' = counter
             /\ chan' = chan
             /\ UNCHANGED <<script, greeted, printed, rendered>>]_vars

\* An adapter that was not connected has returned None to a call entered with
\* the signal set, and the signal is still set.
C7_Witness ==
    \E r \in Runners :
        /\ input[r] = "none"
        /\ sent[r] # <<>>
        /\ sent[r][1].res = None
        /\ sent[r][1].sig0
        /\ chan = 1

\* C8: the end of the stream is permanent: once next() of an ActionRunner or
\* of the WhereCommand has returned Ok(None), every later call returns
\* Ok(None) too (the source yields nothing after its None).
C8_EndIsPermanent ==
    \A s \in {"glue", "where_", "drain"} :
        \A i, j \in 1..Len(sent[s]) :
            (i < j /\ sent[s][i].res = None) => sent[s][j].res = None

\* The last adapter and the filter have each returned a value, then None,
\* then None again.
C8_Witness ==
    \A s \in {"where_", "drain"} :
        /\ Len(sent[s]) >= 3
        /\ sent[s][1].res.t = "Some"
        /\ sent[s][2].res = None
        /\ sent[s][3].res = None

\* The values among results.
RECURSIVE ValuesOf(_)
ValuesOf(results) ==
    IF results = <<>> THEN <<>>
    ELSE IF Head(results).t = "Some" /\ Head(results).item.out = "Value"
      THEN <<Head(results).item.value>> \o ValuesOf(Tail(results))
      ELSE ValuesOf(Tail(results))

\* What stage s has returned, in order.
ResultsOf(s) == [i \in 1..Len(sent[s]) |-> sent[s][i].res]

\* A Record whose field `name` is Text without the substring `thirdparty`.
KeptByFilter(v) ==
    /\ v.kind = "Row"
    /\ \E i \in 1..Len(v.row) :
          /\ v.row[i].name = "name"
          /\ v.row[i].val.kind = "String"
          /\ \A k \in 1..(Len(v.row[i].val.text) - 9) :
                SubSeq(v.row[i].val.text, k, k + 9) # "thirdparty"

RECURSIVE Kept(_)
Kept(values) ==
    IF values = <<>> THEN <<>>
    ELSE IF KeptByFilter(Head(values)) THEN <<Head(values)>> \o Kept(Tail(values))
    ELSE Kept(Tail(values))

Handled(r) ==
    IF pc = <<r, "check">> THEN SubSeq(recvd[r], 1, Len(recvd[r]) - 1) ELSE recvd[r]

\* How many of the results are the control signal a.
RECURSIVE Signals(_, _)
Signals(results, a) ==
    IF results = <<>> THEN 0
    ELSE (IF /\ Head(results).t = "Some"
             /\ Head(results).item.out = "Action"
             /\ Head(results).item.action = a
            THEN 1 ELSE 0) + Signals(Tail(results), a)

\* No Ctrl-C so far, and no error from the upstream of adapter r.
Undisturbed(r) ==
    /\ ~everSet
    /\ \A i \in 1..Len(recvd[r]) : recvd[r][i].t # "Err"

\* C10: with no cancellation and no upstream error an ActionRunner handles
\* every upstream item once and forwards only data: the values it has returned
\* are the Value items it pulled, in order, it returns no control signal, and
\* the counter is its initial value plus the number of Increment signals
\* pulled (Greet and Value items leave it as it is).
C10_ForwardsOnlyData ==
    (\A r \in Runners : Undisturbed(r)) =>
        /\ \A r \in Runners :
              /\ ValuesOf(ResultsOf(r)) = ValuesOf(Handled(r))
              /\ \A c \in Returns(r) : c.res.t = "Some" => c.res.item.out = "Value"
        /\ counter = 10 + Signals(Handled("glue"), "Increment")
                         + Signals(Handled("drain"), "Increment")
        /\ greeted = Signals(Handled("glue"), "Greet")
                       + Signals(Handled("drain"), "Greet")

\* The first adapter has handled an Increment and a value, which it returned,
\* and has reached the end of its upstream.
C10_Witness ==
    /\ Undisturbed("glue") /\ Undisturbed("drain")
    /\ Len(Handled("glue")) = 3
    /\ counter = 11
    /\ Len(ValuesOf(ResultsOf("glue"))) = 1

\* Stage s has just received an error from its upstream.
GotError(s) == pc = <<s, "recv">> /\ ret.t = "Err"

\* C11: errors pass through unchanged and fail fast: the WhereCommand and an
\* ActionRunner return an error of the upstream from the same call, as it is,
\* without another pull, and main stops at the first error: it pulls and
\* prints nothing after it.
C11_ErrorsFailFast ==
    /\ [][\A s \in {"glue", "where_", "drain"} :
            (GotError(s) /\ pc' # pc) =>
                /\ ret' = ret
                /\ pc' = <<Caller(s), "recv">>
                /\ UNCHANGED <<script, counter, chan, greeted, printed>>]_vars
    /\ [][(GotError("main") /\ mode = "main" /\ pc' # pc) =>
                /\ pc' = <<"main", "failed">>
                /\ UNCHANGED <<script, printed, rendered, ret>>]_vars
    /\ [][pc = <<"main", "failed">> => UNCHANGED vars]_vars
    /\ [](\A s \in {"glue", "where_", "drain"} : \A c \in Returns(s) :
            c.last = "Err" => c.res.t = "Err")

\* main has stopped at an error of the source with an item of the source
\* left unpulled.
C11_Witness ==
    /\ pc = <<"main", "failed">>
    /\ top = "drain"
    /\ ret = Err("Source")
    /\ script # <<>>
    /\ \A s \in {"glue", "where_", "drain"} : sent[s] # <<>>

-----------------------------------------------------------------------------
(* Pages of the table *)

\* The values of page j as a Vec.
Page(j) == rendered[j].values

\* How many values the first j pages hold.
RECURSIVE Flushed(_)
Flushed(j) == IF j = 0 THEN 0 ELSE Flushed(j - 1) + VecLen(Page(j))

\* The table has just handed its newest page to the renderer.
PageOut == top = "table" /\ flushed

\* C3: every page passed to the renderer is column-homogeneous: all its values
\* have the column_names of its first value, for any stream and any outcome of
\* the time checks.
C3_PageHomogeneous ==
    \A j \in 1..Len(rendered) : \A k \in 1..Len(Page(j)) :
        column_names(Page(j)[k].v) = column_names(Page(j)[1].v)

\* A run with a page ended by a time check and a page of different values of
\* the same columns ended by a change of columns.
C3_Witness ==
    /\ \E j \in 1..Len(rendered) : rendered[j].why = "timeout"
    /\ \E j \in 1..Len(rendered) : Len(Page(j)) > 1 /\ rendered[j].why = "schema"
    /\ pc = <<"main", "done">>

\* The table has received from its upstream a value whose column_names differ
\* from those of the page being accumulated.
ColumnsChange ==
    /\ pc = <<"table", "recv">>
    /\ ret.t = "Some"
    /\ new_input # <<>>
    /\ column_names(new_input[1].v) # column_names(ret.item.value)

\* The stream of the example: 500 records {a}, then one record {a, b}.
StartsWithExample ==
    /\ Len(feed.segs) >= 2
    /\ SubSeq(feed.segs, 1, 2) = <<Seg(<<"a">>, 500), Seg(<<"a", "b">>, 1)>>
    /\ ~feed.slow

\* What a page ended by a change of columns holds, and where the value that
\* ended it went.
HeldBack(j) ==
    LET o == Flushed(j - 1)
        n == VecLen(Page(j))
    IN  /\ o + n + 1 <= FeedLen(feed.segs)
        /\ \A i \in 1..n : VecGet(Page(j), i) = FeedValue(feed.segs, o + i)
        /\ column_names(FeedValue(feed.segs, o + n + 1)) # column_names(Page(j)[1].v)
        /\ IF j < Len(rendered)
             THEN Page(j + 1)[1].v = FeedValue(feed.segs, o + n + 1)
             ELSE /\ new_input # <<>>
                  /\ new_input[1].v = FeedValue(feed.segs, o + n + 1)

\* C4: a pulled value whose column_names differ from those of the page being
\* accumulated is held back: the page is flushed with exactly the values
\* pulled before it, and the held-back value is the first value of the next
\* page.  500 records {a} followed by one {a, b} give a first page of exactly
\* the 500 records and a second page that starts with the {a, b} record.
C4_SchemaChangeHeldBack ==
    /\ [](\A j \in 1..Len(rendered) : rendered[j].why = "schema" => HeldBack(j))
    /\ [][ColumnsChange =>
            /\ Len(rendered') = Len(rendered) + 1
            /\ rendered'[Len(rendered')].values = new_input
            /\ rendered'[Len(rendered')].why = "schema"
            /\ new_input' = <<[v |-> ret.item.value, n |-> 1]>>
            /\ delay_slot' = <<>>]_vars
    /\ [](StartsWithExample =>
            /\ Len(rendered) >= 1 =>
                  Page(1) = <<[v |-> Row(<<Field("a", Str("x"))>>), n |-> 500]>>
            /\ Len(rendered) >= 2 =>
                  Page(2)[1].v = Row(<<Field("a", Str("x")), Field("b", Str("x"))>>)
            /\ pc = <<"main", "done">> => Len(rendered) >= 2)

\* The example has run to its end: two pages or more, the first ended by the
\* change of columns.
C4_Witness ==
    /\ StartsWithExample
    /\ pc = <<"main", "done">>
    /\ Len(rendered) >= 2
    /\ rendered[1].why = "schema"
    /\ VecLen(Page(1)) = 500

\* All values of the stream have the same column_names.
Homogeneous ==
    \A i, k \in 1..Len(feed.segs) : feed.segs[i].cols = feed.segs[k].cols

\* C5: a homogeneous stream of N records delivered within the time budget is
\* rendered in ceil(N / 1000) pages, each but the last of exactly 1000
\* records, page j (from 0) with starting index 1000 * j, and no page of any
\* stream has more than 1000 records.  N = 2500 gives pages of 1000, 1000 and
\* 500 records at 0, 1000 and 2000.
C5_PageSizes ==
    /\ \A j \in 1..Len(rendered) : VecLen(Page(j)) <= 1000
    /\ (Homogeneous /\ timeouts = 0) =>
         /\ \A j \in 1..Len(rendered) :
               /\ rendered[j].starting_idx = 1000 * (j - 1)
               /\ j < Len(rendered) => VecLen(Page(j)) = 1000
         /\ pc = <<"main", "done">> =>
               /\ Len(rendered) = (FeedLen(feed.segs) + 999) \div 1000
               /\ Flushed(Len(rendered)) = FeedLen(feed.segs)
               /\ FeedLen(feed.segs) = 2500 =>
                     /\ [j \in 1..3 |-> VecLen(Page(j))] = <<1000, 1000, 500>>
                     /\ [j \in 1..3 |-> rendered[j].starting_idx] = <<0, 1000, 2000>>

\* The stream of 2500 records {a} has been rendered to its end in three pages.
C5_Witness ==
    /\ feed.segs = <<Seg(<<"a">>, 2500)>>
    /\ timeouts = 0
    /\ pc = <<"main", "done">>
    /\ Len(rendered) = 3

\* The number a string of decimal digits writes; -1 when it is none.
Digits == <<"0", "1", "2", "3", "4", "5", "6", "7", "8", "9">>

RECURSIVE ParseDec(_)
ParseDec(str) ==
    IF Len(str) = 0 THEN -1
    ELSE LET c == SubSeq(str, Len(str), Len(str))
             rest == SubSeq(str, 1, Len(str) - 1)
         IN  IF \A d \in 1..10 : Digits[d] # c THEN -1
             ELSE LET u == (CHOOSE d \in 1..10 : Digits[d] = c) - 1
                  IN  IF Len(rest) = 0 THEN u
                      ELSE IF ParseDec(rest) <= 0 THEN -1
                      ELSE 10 * ParseDec(rest) + u

\* The index cell of row i (from 0) of page j as values_to_entries makes it.
RowIndex(j, i) == IndexCell(rendered[j].starting_idx, i)

C12_ErrorDropsBufferedPage ==
    /\ [][(GotError("table") /\ pc' # pc) =>
                /\ ret' = ret
                /\ pc' = <<"main", "recv">>
                /\ rendered' = rendered]_vars
    /\ [][/\ Len(rendered') >= Len(rendered)
          /\ SubSeq(rendered', 1, Len(rendered)) = rendered]_vars
    /\ [](pc = <<"main", "failed">> =>
            /\ ret = Err("Upstream")
            /\ Flushed(Len(rendered)) + VecLen(new_input) = FeedLen(feed.segs)
            /\ \A i \in 1..VecLen(new_input) :
                  VecGet(new_input, i) = FeedValue(feed.segs, Flushed(Len(rendered)) + i))
    /\ [][pc = <<"main", "failed">> => UNCHANGED vars]_vars

\* The upstream has failed after a change of columns: a page is rendered, and
\* the value held back, and one more, were buffered and are not.
C12_Witness ==
    /\ pc = <<"main", "failed">>
    /\ top = "table"
    /\ Len(rendered) >= 1
    /\ rendered[Len(rendered)].why = "schema"
    /\ VecLen(new_input) = 2

\* C13: over an upstream that yields finitely many values and then None,
\* table() terminates: it flushes the last, partial page, does not pull after
\* the first None, renders no empty page, and returns Ok(None) and never a
\* value.
C13_TableTerminates ==
    /\ <>(pc \in {<<"main", "done">>, <<"main", "failed">>})
    /\ [](feed.fails \/ pc # <<"main", "failed">>)
    /\ [][(pc = <<"table", "recv">> /\ ret.t = "None") =>
                /\ pc' # <<"feed", "call">>
                /\ ret' = None]_vars
    /\ [](\A j \in 1..Len(rendered) : VecLen(Page(j)) > 0)
    /\ [](\A c \in Returns("table") : c.res.t # "Some")
    /\ [](pc = <<"main", "done">> =>
            /\ ret = None
            /\ Flushed(Len(rendered)) = FeedLen(feed.segs)
            /\ feedPos = FeedLen(feed.segs) + 1)

\* A slow stream has been rendered to its end: a page ended by the time check
\* and a last, partial page.
C13_Witness ==
    /\ pc = <<"main", "done">>
    /\ top = "table"
    /\ timeouts = 1
    /\ rendered[Len(rendered)].why = "end"
    /\ VecLen(Page(Len(rendered))) < 1000

\* Page j was ended neither by the end of the stream nor by a change of
\* columns: the stream goes on after it with a value of the same columns.
EndedEarly(j) ==
    /\ Flushed(j) < FeedLen(feed.segs)
    /\ column_names(FeedValue(feed.segs, Flushed(j) + 1)) = column_names(Page(j)[1].v)

\* C23: the elapsed time is checked only when the values accumulated in the
\* page are a multiple of 100, and a page is flushed for time only at such a
\* check that finds a second or more elapsed: a page flushed for time holds a
\* positive multiple of 100 values, and a slow upstream causes no flush
\* between two checks.
C23_TimeCheckEveryHundred ==
    /\ []((pc = <<"table", "recv">> /\ TimeChecked(TableLocals, ret)) =>
            (VecLen(new_input) + 1) % 100 = 0)
    /\ [][timeouts' # timeouts =>
            /\ pc = <<"table", "recv">>
            /\ ret.t = "Some"
            /\ (VecLen(new_input) + 1) % 100 = 0
            /\ Len(rendered') = Len(rendered) + 1
            /\ rendered'[Len(rendered')].values = VecPush(new_input, ret.item.value)
            /\ new_input' = <<>>]_vars
    /\ [](\A j \in 1..Len(rendered) :
            EndedEarly(j) =>
                /\ VecLen(Page(j)) > 0
                /\ VecLen(Page(j)) % 100 = 0
                /\ VecLen(Page(j)) < 1000 => feed.slow /\ timeouts > 0)

\* A slow stream of 500 values and more: its first page was flushed for time
\* at a check, with a multiple of 100 values and fewer than 1000, and the
\* stream has been rendered to its end.
C23_Witness ==
    /\ feed.slow
    /\ FeedLen(feed.segs) > 500
    /\ pc = <<"main", "done">>
    /\ Len(rendered) >= 2
    /\ rendered[1].why = "timeout"
    /\ EndedEarly(1)
    /\ VecLen(Page(1)) \in {100, 200, 300, 400, 500}

\* Page j holds, in order, the values of the stream that follow those of the
\* pages before it.
PageIsSlice(j) ==
    \A i \in 1..VecLen(Page(j)) :
        VecGet(Page(j), i) = FeedValue(feed.segs, Flushed(j - 1) + i)

\* C24: pagination preserves a stream without error, whatever ends the pages:
\* the pages rendered, one after the other, are the values of the upstream in
\* order, none lost, repeated or out of place; at the end all values are
\* rendered and the delay slot is empty; and no page is empty.
C24_PagesPreserveStream ==
    /\ [](~feed.fails =>
            /\ \A j \in 1..Len(rendered) : VecLen(Page(j)) > 0
            /\ PageOut => PageIsSlice(Len(rendered))
            /\ Flushed(Len(rendered)) + Len(delay_slot) <= FeedLen(feed.segs)
            /\ delay_slot # <<>> =>
                  delay_slot[1] = FeedValue(feed.segs, Flushed(Len(rendered)) + 1)
            /\ pc = <<"main", "done">> =>
                  /\ \A j \in 1..Len(rendered) : PageIsSlice(j)
                  /\ Flushed(Len(rendered)) = FeedLen(feed.segs)
                  /\ delay_slot = <<>>)
    /\ [][/\ Len(rendered') \in {Len(rendered), Len(rendered) + 1}
          /\ SubSeq(rendered', 1, Len(rendered)) = rendered]_vars

\* A slow stream whose columns change twice has been rendered to its end in
\* four pages or more, one ended by a time check and others by the changes
\* of columns.
C24_Witness ==
    /\ ~feed.fails
    /\ pc = <<"main", "done">>
    /\ Len(rendered) >= 4
    /\ \E j \in 1..Len(rendered) : rendered[j].why = "timeout"
    /\ \E j \in 1..Len(rendered) : rendered[j].why = "schema" /\ VecLen(Page(j)) = 2
    /\ Flushed(Len(rendered)) = FeedLen(feed.segs)
    /\ delay_slot = <<>>

-----------------------------------------------------------------------------
(* The layout of a table view *)

\* The places of the list where header h is seen: value r, name k of it (k = 1
\* for a value without names, which is seen as the anonymous header).
Seen(values, h) ==
    { p \in UNION { {<<r, k>> : k \in 1..(Len(column_names(values[r])) + 1)} :
                     r \in 1..Len(values) } :
        LET descs == column_names(values[p[1]])
        IN  IF descs = <<>> THEN h = "" /\ p[2] = 1
            ELSE p[2] <= Len(descs) /\ descs[p[2]] = h }

Before(p, q) == p[1] < q[1] \/ (p[1] = q[1] /\ p[2] < q[2])

FirstSeen(values, h) ==
    CHOOSE p \in Seen(values, h) : \A q \in Seen(values, h) : p = q \/ Before(p, q)

\* The names of the fields of the Rows of a list.
FieldNames(values) ==
    UNION { {column_names(values[r])[k] : k \in 1..Len(column_names(values[r]))} :
            r \in 1..Len(values) }

\* C14: the headers merge_descriptors returns are the field names of the
\* Rows of the list, with the anonymous header "" if some value has no field
\* names, each once and in the order they are first seen in the list; the
\* list [{a,b},{b,c}] gives [a,b,c].
C14_HeadersAreUnionInOrder ==
    pc = <<"from_list", "entries">> =>
        LET values == view.values
            hs == view.headers
        IN  /\ {hs[i] : i \in 1..Len(hs)} =
                   FieldNames(values)
                   \cup (IF \E r \in 1..Len(values) : column_names(values[r]) = <<>>
                           THEN {""} ELSE {})
            /\ \A i, j \in 1..Len(hs) :
                   i < j => /\ hs[i] # hs[j]
                            /\ Before(FirstSeen(values, hs[i]), FirstSeen(values, hs[j]))
            /\ (/\ Len(values) = 2
                /\ column_names(values[1]) = <<"a", "b">>
                /\ column_names(values[2]) = <<"b", "c">>) => hs = <<"a", "b", "c">>

\* The headers of [{a,b},{b,c}] have been merged.
C14_Witness ==
    /\ pc = <<"from_list", "entries">>
    /\ Len(view.values) = 2
    /\ column_names(view.values[1]) = <<"a", "b">>
    /\ column_names(view.values[2]) = <<"b", "c">>
    /\ view.headers = <<"a", "b", "c">>

\* C15: when there are more headers than floor(W/10), maybe_truncate_columns
\* leaves the first floor(W/10) headers and then the ellipsis, floor(W/10)+1
\* headers in all, and every row with floor(W/10)+1 cells, the last one the
\* ellipsis cell; when there are not, headers and rows are left as they were.
\* With W = 100 and 15 headers there are 11 headers and 11 cells in every row.
C15_ColumnTruncation ==
    [][pc = <<"from_list", "truncate">> =>
         LET m == view.termwidth \div 10
         IN  /\ Len(view.headers) > m =>
                   /\ Len(view'.headers) = m + 1
                   /\ SubSeq(view'.headers, 1, m) = SubSeq(view.headers, 1, m)
                   /\ view'.headers[m + 1] = "..."
                   /\ Len(view'.entries) = Len(view.entries)
                   /\ \A r \in 1..Len(view'.entries) :
                          /\ Len(view'.entries[r]) = m + 1
                          /\ SubSeq(view'.entries[r], 1, m) = SubSeq(view.entries[r], 1, m)
                          /\ view'.entries[r][m + 1] = Cell("...", "c")
             /\ Len(view.headers) <= m =>
                   /\ view'.headers = view.headers
                   /\ view'.entries = view.entries
             /\ (view.termwidth = 100 /\ Len(view.headers) = 15) =>
                   /\ Len(view'.headers) = 11
                   /\ \A r \in 1..Len(view'.entries) : Len(view'.entries[r]) = 11]_vars

\* A list with 15 headers has been truncated for W = 100: 11 headers, the last
\* the ellipsis, and 11 cells in every row.
C15_Witness ==
    /\ pc = <<"from_list", "measure">>
    /\ view.termwidth = 100
    /\ Len(merge_descriptors(view.values)) = 15
    /\ Len(view.headers) = 11
    /\ view.headers[11] = "..."
    /\ Len(view.values) = 2
    /\ \A r \in 1..Len(view.entries) : Len(view.entries[r]) = 11

\* Some value of the list is a Row with a named field.
HasNamedField(values) ==
    \E r \in 1..Len(values) : \E k \in 1..Len(column_names(values[r])) :
        column_names(values[r])[k] # ""

\* C16: print_view leaves the header row out exactly when the final headers
\* are a single anonymous column (the index column before it or not), and it
\* renders the header row for every list that holds a Row with a named field.
C16_HeaderRowRule ==
    pc = <<"print_view", "done">> =>
        /\ ~view.titled <=> view.headers = <<"">>
        /\ HasNamedField(view.values) => view.titled

\* C17: from_list returns None for the empty list; for a list that is not
\* empty and a width W >= 20 it returns a view: neither the division for the
\* naive width nor the two computations of max_width divide by zero or
\* subtract below zero.
C17_LayoutArithmeticDefined ==
    /\ view.values = <<>> => pc \in {<<"from_list", "call">>, <<"from_list", "none">>}
    /\ view.values # <<>> =>
          /\ pc \notin {<<"from_list", "none">>, <<"from_list", "panic">>}
          /\ pc # <<"from_list", "call">> => view.termwidth >= 20
          /\ pc = <<"from_list", "measure">> =>
                LET headers_len == Len(view.headers)
                IN  /\ NaiveWidthDefined(view.termwidth, headers_len)
                    /\ MaxWidthDefined(
                           measure(view.max_per_column,
                                   NaiveWidth(view.termwidth, headers_len), headers_len),
                           view.termwidth)
          /\ pc = <<"from_list", "fix">> =>
                MaxWidthDefined(
                    fix_almost_column_width(view.column_space, view.max_per_column,
                                            view.max_naive_column_width,
                                            view.max_column_width, Len(view.headers)),
                    view.termwidth)

\* A view has been returned for W = 20 with a column too wide after both
\* computations of max_width, over headers that were truncated.
C17_Witness ==
    /\ pc = <<"print_view", "call">>
    /\ view.termwidth = 20
    /\ view.column_space.num_overages > 0
    /\ view.max_column_width < 20
    /\ Len(view.headers) = 3

\* The character counts of the cells of the column of header h, which stand
\* behind the index cell of their rows.
ColumnCells(values, headers, h) ==
    { Len(EntryCell(values[r], headers[h]).text) : r \in 1..Len(values) }

\* C19: the natural width of a column is the largest character count among
\* its header and its own cell in every row, the index column being a column
\* of its own in front of the headers: the width of a named header follows
\* from the display text of the field of that name.
C19_NaturalWidthPerColumn ==
    pc = <<"from_list", "truncate">> =>
        \A h \in 1..Len(view.headers) :
            view.max_per_column[h] =
                MaxOf(ColumnCells(view.values, view.headers, h)
                      \cup {Len(view.headers[h])})

\* C20: in the rows values_to_entries builds, behind the index cell, the cell
\* under the anonymous header is the display text of a value that is not a
\* Row and blank for a Row; the cell under a named header is the display text
\* of that field of a Row that has it, and blank for a Row without it and for
\* a value that is not a Row.
C20_CellMatrix ==
    pc = <<"from_list", "max_per_column">> =>
        \A r \in 1..Len(view.values) : \A h \in 1..Len(view.headers) :
            LET value == view.values[r]
                d == view.headers[h]
            IN  view.entries[r][h + 1].text =
                    IF d = ""
                      THEN (IF value.kind # "Row" THEN Display(value) ELSE "")
                      ELSE (IF value.kind = "Row" /\ HasField(value.row, d)
                              THEN Display(GetField(value.row, d))
                              ELSE "")

\* The columns the two passes look at (from 1): take(headers_len) of the
\* widths.
PassColumns(widths, k) == 1..(IF k < Len(widths) THEN k ELSE Len(widths))

\* What a column costs besides its width: 3 unless it is the last column, and
\* 1 if it is the first.
SeparatorCost(i, k) == (IF i # k THEN 3 ELSE 0) + (IF i = 1 THEN 1 ELSE 0)

\* The sum over the columns S of their separator cost, and of their width too
\* if `withWidth`.
RECURSIVE SumCost(_, _, _, _)
SumCost(S, widths, k, withWidth) ==
    IF S = {} THEN 0
    ELSE LET i == CHOOSE x \in S : TRUE
         IN  SeparatorCost(i, k) + (IF withWidth THEN widths[i] ELSE 0)
             + SumCost(S \ {i}, widths, k, withWidth)

\* maxOverage = (W - 1 - underageSum - overageSeparators) / numOverage, and
\* 99999 when no column is overage.
MaxOverage(W, under, over, moved, widths, k) ==
    IF over = {} THEN 99999
    ELSE (W - 1 - SumCost(under, widths, k, TRUE) - SumCost(moved, widths, k, TRUE)
            - SumCost(over, widths, k, FALSE)) \div Cardinality(over)

\* The two passes as they are specified, over the widths max_per_column has
\* recorded: A, the columns overage after pass 1 and its maxOverage, the
\* columns pass 2 moves, and the final maxOverage.
TwoPasses(W, widths, k) ==
    LET A == (W - 3 * (k - 1)) \div k
        cols == PassColumns(widths, k)
        under1 == {i \in cols : widths[i] <= A}
        over1 == cols \ under1
        max1 == MaxOverage(W, under1, over1, {}, widths, k)
        moved == {i \in over1 : widths[i] <= max1}
        over2 == over1 \ moved
    IN  [A |-> A, under1 |-> under1, over1 |-> over1, max1 |-> max1,
         moved |-> moved, over2 |-> over2,
         max2 |-> MaxOverage(W, under1, over2, moved, widths, k)]

\* C21: the final wrap width comes from exactly two passes.  With
\* A = (W - 3*(k-1)) / k, pass 1 counts a column underage iff its width <= A,
\* at the cost of its width plus 3 unless it is last plus 1 if it is first,
\* and maxOverage = (W - 1 - underageSum - overageSeparators) / numOverage;
\* pass 2 moves the overage columns of width <= that maxOverage to the
\* underage sum and computes maxOverage once more from the columns left.
\* There is no third pass.
C21_ExactlyTwoPasses ==
    LET p == TwoPasses(view.termwidth, view.max_per_column, Len(view.headers))
    IN  /\ pc = <<"from_list", "fix">> =>
              /\ view.max_naive_column_width = p.A
              /\ view.column_space.num_overages = Cardinality(p.over1)
              /\ view.column_space.underage_sum =
                     SumCost(p.under1, view.max_per_column, Len(view.headers), TRUE)
              /\ view.column_space.overage_separator_sum =
                     SumCost(p.over1, view.max_per_column, Len(view.headers), FALSE)
              /\ view.max_column_width = p.max1
        /\ pc \in {<<"from_list", "wrap">>, <<"print_view", "call">>} =>
              /\ view.max_naive_column_width = p.A
              /\ view.column_space.num_overages = Cardinality(p.over2)
              /\ view.column_space.underage_sum =
                     SumCost(p.under1 \cup p.moved, view.max_per_column,
                             Len(view.headers), TRUE)
              /\ view.column_space.overage_separator_sum =
                     SumCost(p.over2, view.max_per_column, Len(view.headers), FALSE)
              /\ view.max_column_width = p.max2

\* The second pass has moved a column, and a column left overage would fit
\* the final width: a third pass would have moved it.
C21_Witness ==
    LET p == TwoPasses(view.termwidth, view.max_per_column, Len(view.headers))
    IN  /\ pc = <<"from_list", "wrap">>
        /\ p.moved # {}
        /\ \E i \in p.over2 : view.max_per_column[i] <= view.max_column_width
        /\ view.max_column_width > p.max1

\* C22: wrap_cells changes only the columns still overage after the second
\* pass.  A column, header c over cell c of every row as they are printed,
\* that is underage after pass 1 or moved by pass 2 keeps its header and its
\* cells as they were: the width applied to a moved column, the final
\* maxOverage or 99999, is not smaller than the width recorded for it.
C22_WrapOnlyOverage ==
    [][pc = <<"from_list", "wrap">> =>
         LET p == TwoPasses(view.termwidth, view.max_per_column, Len(view.headers))
         IN  /\ Len(view'.headers) = Len(view.headers)
             /\ Len(view'.entries) = Len(view.entries)
             /\ \A c \in p.moved : view.max_column_width >= view.max_per_column[c]
             /\ p.over2 = {} => view.max_column_width = 99999
             /\ \A c \in 1..Len(view.headers) :
                    c \notin p.over2 => view'.headers[c] = view.headers[c]
             /\ \A r \in 1..Len(view.entries) :
                    /\ Len(view'.entries[r]) = Len(view.entries[r])
                    /\ \A c \in 1..Len(view.entries[r]) :
                           c \notin p.over2 => view'.entries[r][c] = view.entries[r][c]]_vars

\* A view has been wrapped in which pass 2 had moved a column, left as it
\* was, and a column still overage has a cell broken into lines.
C22_Witness ==
    LET p == TwoPasses(view.termwidth, view.max_per_column, Len(view.headers))
        e == values_to_entries(view.values, merge_descriptors(view.values),
                               view.starting_idx).entries
    IN  /\ pc = <<"print_view", "call">>
        /\ Len(view.headers) = 3
        /\ Len(view.values) = 1
        /\ p.moved # {}
        /\ \E c \in p.moved : view.entries[1][c] = e[1][c] /\ Len(e[1][c].text) > p.A
        /\ \E c \in p.over2 : view.entries[1][c] # e[1][c]

=============================================================================
